---- MODULE Spec2Model ----
(***************************************************************************)
(* Model of app.py: the Flask handler index, the scraper                   *)
(* extract_coordinates_from_addisland, the calibration                     *)
(* generate_precalibrated_matrix and the projection                        *)
(* convert_eastings_northings_to_lats_lons.                                *)
(*                                                                         *)
(* Texts are sequences of one-character strings.  Floating-point numbers   *)
(* are modelled as exact fixed-point numbers (see Num below); rounding is  *)
(* not modelled.                                                           *)
(***************************************************************************)
EXTENDS Integers, Sequences, FiniteSets, TLC

VARIABLES
    pc,                 \* position of the request: idle, fetch, parse, returned, done, crashed
    method,             \* request.method
    form,               \* request.form.get("title_deed", "")
    title_deed_number,  \* index: title_deed_number
    url,                \* extract_coordinates_from_addisland: url
    response,           \* outcome of requests.get(url)
    selected_table,     \* extract_coordinates_from_addisland: selected_table
    out_dict,           \* index: out_dict
    reply_msg,          \* index: reply_msg
    precalib,           \* convert_...: precalib_easting_northing_matrix
    computed,           \* index: (computed_lats, computed_lons)
    validity_html,      \* index: validity_html
    map_html,           \* index: map_html
    google_map_href,    \* index: google_map_href
    addisland_href,     \* index: addisland_href
    matrix,             \* easting_northing_matrix handed to the pipeline
    fetches,            \* number of requests.get calls made for this request
    parses,             \* number of BeautifulSoup(...) calls made for this request
    converts            \* arguments convert_... was called with for this request

vars == << pc, method, form, title_deed_number, url, response,
           selected_table, out_dict,
           reply_msg, precalib, computed, validity_html, map_html,
           google_map_href, addisland_href, matrix, fetches, parses, converts >>

-----------------------------------------------------------------------------
(* Bounds of the model *)

\* most data rows (after the header) of a table in the row-filter family
MaxRows == 3
\* most top-level tables of a document in the table-selection family
MaxTables == 2
\* most points of a batch handed to the pipeline directly
MaxPoints == 3

-----------------------------------------------------------------------------
(* Python values *)

None == [py |-> "None"]

Raised(e) == [py |-> "exception", type |-> e]

\* a value returned normally by a step that may raise
Returned(v) == [py |-> "value", val |-> v]

IsRaised(v) == "py" \in DOMAIN v /\ v.py = "exception"

\* reply_msg before extract_coordinates_from_addisland has returned
NoReply == "<unassigned>"

-----------------------------------------------------------------------------
(* Texts *)

RECURSIVE Concat(_)
Concat(ss) == IF ss = << >> THEN << >> ELSE Head(ss) \o Concat(Tail(ss))

Whitespace == {" "}

RECURSIVE LStrip(_)
LStrip(t) ==
    IF t # << >> /\ Head(t) \in Whitespace THEN LStrip(Tail(t)) ELSE t

RECURSIVE RStrip(_)
RStrip(t) ==
    IF t # << >> /\ t[Len(t)] \in Whitespace
    THEN RStrip(SubSeq(t, 1, Len(t) - 1))
    ELSE t

\* str.strip() and get_text(strip=True) on a single string
Strip(t) == RStrip(LStrip(t))

\* `needle in text`
Contains(text, needle) ==
    \E i \in 0 .. (Len(text) - Len(needle)) :
        SubSeq(text, i + 1, i + Len(needle)) = needle

AsciiDigits == << "0", "1", "2", "3", "4", "5", "6", "7", "8", "9" >>

IsAsciiDigit(c) == \E i \in 1 .. 10 : AsciiDigits[i] = c

DigitValue(c) == (CHOOSE i \in 1 .. 10 : AsciiDigits[i] = c) - 1

\* U+00B2 SUPERSCRIPT TWO: a character str.isdigit() accepts and float() rejects
Sup2 == "sup2"

\* characters of Unicode category "digit" (Numeric_Type Digit or Decimal)
IsDigitChar(c) == IsAsciiDigit(c) \/ c = Sup2

\* str.isdigit(): non-empty and every character is a digit
isdigit(t) == t # << >> /\ \A i \in 1 .. Len(t) : IsDigitChar(t[i])

\* str.replace(".", "", 1): remove the first "."
ReplaceFirstDot(t) ==
    IF \E i \in 1 .. Len(t) : t[i] = "."
    THEN LET i == CHOOSE j \in 1 .. Len(t) :
                      t[j] = "." /\ \A k \in 1 .. (j - 1) : t[k] # "."
         IN  SubSeq(t, 1, i - 1) \o SubSeq(t, i + 1, Len(t))
    ELSE t

\* x.replace(".", "", 1).isdigit()
LooksNumeric(t) == isdigit(ReplaceFirstDot(t))

-----------------------------------------------------------------------------
(* Numbers.  A Num [hi, lo] is the exact value (hi * Base + lo) in units   *)
(* of 1e-5 / Den, with 0 <= lo < Base; Den makes the mean of up to         *)
(* MaxBatch numbers exact.                                                 *)

Base == 10 * 10000

\* the longest coordinate list a document of the model yields
MaxBatch ==
    CHOOSE m \in {MaxRows, MaxPoints, 1 + 2} :
        \A k \in {MaxRows, MaxPoints, 1 + 2} : k <= m

Gcd(a, b) == CHOOSE g \in 1 .. a : a % g = 0 /\ b % g = 0
                 /\ \A h \in (g + 1) .. a : ~ (a % h = 0 /\ b % h = 0)

RECURSIVE LcmUpTo(_)
LcmUpTo(n) == IF n <= 1 THEN 1
              ELSE LET l == LcmUpTo(n - 1) IN (l * n) \div Gcd(l, n)

Den == LcmUpTo(MaxBatch)

NumNorm(hi, lo) == [hi |-> hi + (lo \div Base), lo |-> lo % Base]

\* the decimal number i.f, f given as five fractional digits
Dec(i, f) == NumNorm(i * Den, f * Den)

Zero == Dec(0, 0)

NumAdd(a, b) == NumNorm(a.hi + b.hi, a.lo + b.lo)

NumSub(a, b) == NumNorm(a.hi - b.hi, a.lo - b.lo)

NumScale(k, a) == NumNorm(k * a.hi, k * a.lo)

\* a / n for a multiple a of n (exact)
NumDiv(a, n) ==
    LET q == a.hi \div n
        r == a.hi % n
    IN  NumNorm(q, (r * Base + a.lo) \div n)

RECURSIVE NumSum(_)
NumSum(s) == IF s = << >> THEN Zero ELSE NumAdd(Head(s), NumSum(Tail(s)))

\* np.mean
mean(s) == NumDiv(NumSum(s), Len(s))

RECURSIVE DigitsValue(_)
DigitsValue(t) ==
    IF t = << >> THEN 0
    ELSE 10 * DigitsValue(SubSeq(t, 1, Len(t) - 1)) + DigitValue(t[Len(t)])

RECURSIVE PadRight(_, _)
PadRight(t, n) == IF Len(t) >= n THEN t ELSE PadRight(t \o << "0" >>, n)

\* float(x) for a text that passed LooksNumeric; texts of the model carry at
\* most five fractional digits
float(t) ==
    IF \E i \in 1 .. Len(t) : ~ (IsAsciiDigit(t[i]) \/ t[i] = ".")
    THEN Raised("ValueError")
    ELSE IF \E i \in 1 .. Len(t) : t[i] = "."
         THEN LET i == CHOOSE j \in 1 .. Len(t) : t[j] = "."
              IN  Dec(DigitsValue(SubSeq(t, 1, i - 1)),
                      DigitsValue(PadRight(SubSeq(t, i + 1, Len(t)), 5)))
         ELSE Dec(DigitsValue(t), 0)

-----------------------------------------------------------------------------
(* The fetched document, as BeautifulSoup sees it: the top-level tables in *)
(* document order.  A table is its rows (tr); a row is its cells (td); a   *)
(* cell holds a text, bare or wrapped in a span, or a nested table.        *)

NoTable == [py |-> "NoTable"]

Td(text) == [text |-> text, span |-> FALSE, inner |-> NoTable]

SpanTd(text) == [text |-> text, span |-> TRUE, inner |-> NoTable]

NestTd(table) == [text |-> << >>, span |-> FALSE, inner |-> table]

Table(rows) == [rows |-> rows]

\* soup.find_all("table") below one top-level table: the table, then the
\* tables nested in it, in document order
RECURSIVE TablesIn(_)
TablesIn(table) ==
    << table >> \o
    Concat([i \in 1 .. Len(table.rows) |->
        Concat([j \in 1 .. Len(table.rows[i]) |->
            IF table.rows[i][j].inner = NoTable THEN << >>
            ELSE TablesIn(table.rows[i][j].inner)])])

\* soup.find_all("table")
find_all_table(doc) == Concat([i \in 1 .. Len(doc) |-> TablesIn(doc[i])])

\* [span.get_text(strip=True) for span in table.find_all("span")]
RECURSIVE span_texts(_)
span_texts(table) ==
    Concat([i \in 1 .. Len(table.rows) |->
        Concat([j \in 1 .. Len(table.rows[i]) |->
            LET c == table.rows[i][j]
            IN  IF c.inner # NoTable THEN span_texts(c.inner)
                ELSE IF c.span THEN << Strip(c.text) >>
                ELSE << >>])])

\* table.find_all("tr"): every row below the table, nested ones included
RECURSIVE find_all_tr(_)
find_all_tr(table) ==
    Concat([i \in 1 .. Len(table.rows) |->
        << table.rows[i] >> \o
        Concat([j \in 1 .. Len(table.rows[i]) |->
            IF table.rows[i][j].inner = NoTable THEN << >>
            ELSE find_all_tr(table.rows[i][j].inner)])])

\* row.find_all("td"): every cell below the row, nested ones included
RECURSIVE find_all_td(_)
find_all_td(row) ==
    Concat([j \in 1 .. Len(row) |->
        << row[j] >> \o
        (IF row[j].inner = NoTable THEN << >>
         ELSE Concat([i \in 1 .. Len(row[j].inner.rows) |->
                  find_all_td(row[j].inner.rows[i])]))])

\* td.get_text(strip=True): the stripped strings below the cell, joined
RECURSIVE get_text(_)
get_text(cell) ==
    IF cell.inner = NoTable THEN Strip(cell.text)
    ELSE Concat([i \in 1 .. Len(cell.inner.rows) |->
             Concat([j \in 1 .. Len(cell.inner.rows[i]) |->
                 get_text(cell.inner.rows[i][j])])])

-----------------------------------------------------------------------------
(* extract_coordinates_from_addisland *)

Marker == << "C", "o", "r", "d", "n", "a", "t", "e", "s", "/" >>

BaseUrl == "https://www.addisland.gov.et/en-us/certificate/"

\* the messages, without their leading cross mark
Success == "Success"

TransportFailure == "Server Problem: Failed to get response. Please retry later."

NoDataFailure == "No valid coordinates found."

ParseFailure == "Invalid Title Deed Number: Please enter correct title deed number."

\* any("Cordnates/" in text for text in span_texts)
HasMarker(table) ==
    LET texts == span_texts(table)
    IN  \E i \in 1 .. Len(texts) : Contains(texts[i], Marker)

\* the loop does not break: the last table with the marker
SelectTable_Last(tables) ==
    IF \E i \in 1 .. Len(tables) : HasMarker(tables[i])
    THEN tables[CHOOSE i \in 1 .. Len(tables) :
                    HasMarker(tables[i])
                    /\ \A k \in (i + 1) .. Len(tables) : ~ HasMarker(tables[k])]
    ELSE None

\* the loop over tables: the first table, in document order, with the marker
SelectTable(tables) ==
    IF \E i \in 1 .. Len(tables) : HasMarker(tables[i])
    THEN tables[CHOOSE i \in 1 .. Len(tables) :
                    HasMarker(tables[i])
                    /\ \A k \in 1 .. (i - 1) : ~ HasMarker(tables[k])]
    ELSE None

\* selected_table.find_all("tr")
SelectedRows(table) ==
    IF table = None THEN Raised("AttributeError")
    ELSE Returned(find_all_tr(table))

\* len(cols) == 2 and both texts pass the digit check
RowAccepted(cols) ==
    /\ Len(cols) = 2
    /\ LooksNumeric(get_text(cols[1]))
    /\ LooksNumeric(get_text(cols[2]))

\* [float(x), float(y)]
FloatPair(x, y) ==
    IF IsRaised(x) THEN x ELSE IF IsRaised(y) THEN y ELSE Returned(<< x, y >>)

\* the coordinates of an accepted row
RowValue(cols) == FloatPair(float(get_text(cols[1])), float(get_text(cols[2])))

\* the loop over rows[1:], appending the accepted rows
RECURSIVE CollectRows(_, _)
RECURSIVE CollectFrom(_, _, _)
RECURSIVE Collected(_, _, _)
\* the row is put in front of the list
Collected_Prepend(pair, rest, coordinate_data) ==
    IF IsRaised(pair) THEN pair
    ELSE CollectRows(rest, << pair.val >> \o coordinate_data)

Collected(pair, rest, coordinate_data) ==
    IF IsRaised(pair) THEN pair
    ELSE CollectRows(rest, Append(coordinate_data, pair.val))

CollectFrom(cols, rest, coordinate_data) ==
    IF RowAccepted(cols) THEN Collected(RowValue(cols), rest, coordinate_data)
    ELSE CollectRows(rest, coordinate_data)

CollectRows(rows, coordinate_data) ==
    IF rows = << >> THEN Returned(coordinate_data)
    ELSE CollectFrom(find_all_td(Head(rows)), Tail(rows), coordinate_data)

\* the final if is missing
ExtractResult_AlwaysSuccess(coordinate_data, u) ==
    [out |-> [easting_northing_matrix |-> coordinate_data, addisland_url |-> u],
     msg |-> Success]

\* the final if: a result needs a non-empty coordinate list
ExtractResult(coordinate_data, u) ==
    IF coordinate_data # << >>
    THEN [out |-> [easting_northing_matrix |-> coordinate_data,
                   addisland_url |-> u],
          msg |-> Success]
    ELSE [out |-> None, msg |-> NoDataFailure]

\* the end of the try block: the rows collected, or the exception raised
AfterRows(coordinate_data, u) ==
    IF IsRaised(coordinate_data) THEN coordinate_data
    ELSE ExtractResult(coordinate_data.val, u)

\* the try block from the rows of the selected table on
FromRows(rows, u) ==
    IF IsRaised(rows) THEN rows
    ELSE AfterRows(CollectRows(Tail(rows.val), << >>), u)

\* the body of the second try block
ParseBody(doc, u) ==
    FromRows(SelectedRows(SelectTable(find_all_table(doc))), u)

\* except Exception
ParseExcept(e) == [out |-> None, msg |-> ParseFailure]

\* the exception is raised again
Recover_Reraise(r) == r

\* the second try block with its handler
Recover(r) == IF IsRaised(r) THEN ParseExcept(r) ELSE r

ParseStage(doc, u) == Recover(ParseBody(doc, u))

\* the status is never checked
FetchFailed_NoStatusCheck(outcome) == outcome.kind = "RequestException"

\* response.raise_for_status() raises on 4xx and 5xx; requests.get raises on
\* a connection failure
FetchFailed(outcome) ==
    outcome.kind = "RequestException" \/ outcome.status >= 400

-----------------------------------------------------------------------------
(* The documents of the model *)

E1Text == << "4", "7", "7", "5", "0", "4", ".", "6", "9", "7", "5" >>
N1Text == << "9", "8", "0", "9", "2", "2", ".", "8", "1", "3" >>
E2Text == << "4", "8", "2", "9", "7", "7", ".", "0", "7", "8", "7", "5" >>
N2Text == << "9", "9", "2", "7", "3", "4", ".", "9", "4", "2", "7", "5" >>
E3Text == << "4", "8", "7", "7", "4", "1", ".", "8", "5", "3", "6" >>
N3Text == << "9", "9", "3", "5", "8", "6", ".", "1", "7", "8", "4" >>

\* the three survey points that are also the calibration reference points;
\* the second is written with surrounding blanks
RefRow(k) ==
    CASE k = 1 -> << Td(E1Text), Td(N1Text) >>
      [] k = 2 -> << Td(<< " " >> \o E2Text \o << " " >>), Td(N2Text) >>
      [] k = 3 -> << Td(E3Text), Td(N3Text) >>

JunkRow == << Td(E1Text), Td(<< "a", "b", "c" >>) >>

TwoDotsRow == << Td(<< "1", ".", "2", ".", "3" >>), Td(N1Text) >>

OneCellRow == << Td(E1Text) >>

Sup2Row == << Td(<< "1", Sup2 >>), Td(N1Text) >>

DataRows ==
    { RefRow(k) : k \in 1 .. 3 }
        \cup { JunkRow, TwoDotsRow, OneCellRow, Sup2Row }

HeaderMarker == << SpanTd(Marker \o << "X" >>), SpanTd(<< "Y" >>) >>

HeaderLower == << SpanTd(<< "c", "o", "r", "d", "n", "a", "t", "e", "s", "/", "X" >>), SpanTd(<< "Y" >>) >>

HeaderBare == << Td(Marker \o << "X" >>), Td(<< "Y" >>) >>

HeaderOther == << SpanTd(<< "O", "w", "n", "e", "r" >>) >>

MarkerDataRow == << SpanTd(Marker), Td(N1Text) >>

SeqsUpTo(S, n) == UNION { [1 .. k -> S] : k \in 0 .. n }

\* row-filter family: one coordinates table, any data rows
FilterTables ==
    { Table(<< HeaderMarker >> \o body) : body \in SeqsUpTo(DataRows, MaxRows) }

CoordTable(k) == Table(<< HeaderMarker, RefRow(k) >>)

\* table-selection family: several small tables
SmallTables ==
    { CoordTable(1),
      Table(<< HeaderMarker, RefRow(2), RefRow(3) >>),
      Table(<< HeaderMarker >>),
      Table(<< >>),
      Table(<< HeaderOther, RefRow(1) >>),
      Table(<< HeaderLower, RefRow(1) >>),
      Table(<< HeaderBare, RefRow(1) >>),
      Table(<< HeaderOther, MarkerDataRow, RefRow(3) >>),
      Table(<< HeaderOther, << NestTd(CoordTable(1)) >>, RefRow(3) >>) }

Documents ==
    { << t >> : t \in FilterTables } \cup SeqsUpTo(SmallTables, MaxTables)

\* bodies of error responses
ErrorDocuments == { << >>, << CoordTable(1) >> }

FetchOutcomes ==
    { [kind |-> "RequestException", status |-> 0, doc |-> << >>] }
        \cup [kind : {"response"}, status : {200}, doc : Documents]
        \cup [kind : {"response"}, status : {404, 500}, doc : ErrorDocuments]

-----------------------------------------------------------------------------
(* generate_precalibrated_matrix *)

given_easting == << Dec(477504, 69750), Dec(482977, 7875), Dec(487741, 85360) >>

given_northing == << Dec(980922, 81300), Dec(992734, 94275), Dec(993586, 17840) >>

easting_calib_req == << Dec(90, 64840), Dec(92, 64840), Dec(94, 64840) >>

northing_calib_req == << Dec(204, 27790), Dec(210, 27790), Dec(208, 27790) >>

\* np.column_stack
column_stack(a, b) == [i \in 1 .. Len(a) |-> << a[i], b[i] >>]

Column(m, k) == [i \in 1 .. Len(m) |-> m[i][k]]

\* the survey points handed to the pipeline directly, as offsets
\*   points[1] + u (points[2] - points[1]) + v (points[3] - points[1])
\* from the first reference point: the reference points <<0, 0>>, <<1, 0>>,
\* <<0, 1>> and two points outside their triangle
LatticePoints == { << 0, 0 >>, << 1, 0 >>, << 0, 1 >>, << 1, 1 >>, << -1, 0 >> }

\* the weights (c2 / d, c3 / d) the model looks for lie in -1 .. 1
Grid(d) == ((0 - d) .. d) \X ((0 - d) .. d)

\* q = points[1] + (w[1] / d) (points[2] - points[1])
\*               + (w[2] / d) (points[3] - points[1])
Hits(points, q, d, w) ==
    \A x \in 1 .. 2 :
        NumScale(d, NumSub(q[x], points[1][x]))
            = NumAdd(NumScale(w[1], NumSub(points[2][x], points[1][x])),
                     NumScale(w[2], NumSub(points[3][x], points[1][x])))

\* the position of q relative to the three points, as << d, c2, c3 >>; the
\* positions of the model are means of up to MaxBatch survey points, each a
\* reference point or a point of LatticePoints
Weights(points, q) ==
    CHOOSE t \in UNION { { << d, w[1], w[2] >> : w \in Grid(d) } :
                         d \in 1 .. MaxBatch } :
        Hits(points, q, t[1], << t[2], t[3] >>)

\* the affine function through values at the position t
AffineValue(values, t) ==
    NumAdd(values[1],
           NumDiv(NumAdd(NumScale(t[2], NumSub(values[2], values[1])),
                         NumScale(t[3], NumSub(values[3], values[1]))),
                  t[1]))

\* RBFInterpolator(points, values, smoothing=0)([q])[0].  The default kernel
\* is the thin plate spline with a polynomial of degree 1; through three
\* non-collinear points in the plane the polynomial alone interpolates, the
\* kernel coefficients vanish, and the interpolant is the affine function
\* through the three values.
RBFInterpolator(points, values, q) == AffineValue(values, Weights(points, q))

\* F_easting_calib_req and F_northing_calib_req at one position
CalibAt(points, q) ==
    << RBFInterpolator(points, easting_calib_req, q),
       RBFInterpolator(points, northing_calib_req, q) >>

\* the correction, evaluated at the first point of the batch
CalibValues_AtFirst(eastings, northings) ==
    CalibAt(column_stack(given_easting, given_northing),
            << eastings[1], northings[1] >>)

\* the correction, evaluated at the mean position of the batch
CalibValues(eastings, northings) ==
    CalibAt(column_stack(given_easting, given_northing),
            << mean(eastings), mean(northings) >>)

\* the correction of each row, evaluated at that row
AppliedCalib_PerPoint(eastings, northings, i) ==
    CalibAt(column_stack(given_easting, given_northing),
            << eastings[i], northings[i] >>)

\* the corrections added to the i-th row: the same for every row
AppliedCalib(eastings, northings, i) == CalibValues(eastings, northings)

AddTo(easting, northing, calib) ==
    << NumAdd(easting, calib[1]), NumAdd(northing, calib[2]) >>

\* "Apply calibration" and np.column_stack
ApplyCalib(eastings, northings) ==
    [i \in 1 .. Len(eastings) |->
        AddTo(eastings[i], northings[i], AppliedCalib(eastings, northings, i))]

generate_precalibrated_matrix(easting_northing_matrix) ==
    IF easting_northing_matrix = << >> THEN Raised("IndexError")
    ELSE ApplyCalib(Column(easting_northing_matrix, 1),
                    Column(easting_northing_matrix, 2))

-----------------------------------------------------------------------------
(* convert_eastings_northings_to_lats_lons *)

zone == 37

\* utm.to_latlon(easting, northing, zone, northern=True): the inverse
\* transverse Mercator projection, kept as an uninterpreted term
to_latlon(easting, northing, z, northern) ==
    << [fn |-> "latitude", easting |-> easting, northing |-> northing,
        zone |-> z, northern |-> northern],
       [fn |-> "longitude", easting |-> easting, northing |-> northing,
        zone |-> z, northern |-> northern] >>

\* the last point is appended instead of the first
CloseRing_Last(s) == Append(s, s[Len(s)])

\* "Close the plot shape"
CloseRing(s) == Append(s, s[1])

\* computed_lats and computed_lons of the projected points, closed
Rings(latlons) ==
    << CloseRing(Column(latlons, 1)), CloseRing(Column(latlons, 2)) >>

\* the loop over the precalibrated rows
Project(precalib_easting_northing_matrix) ==
    Rings([i \in 1 .. Len(precalib_easting_northing_matrix) |->
              to_latlon(precalib_easting_northing_matrix[i][1],
                        precalib_easting_northing_matrix[i][2], zone, TRUE)])

convert_eastings_northings_to_lats_lons(easting_northing_matrix) ==
    IF easting_northing_matrix = << >> THEN None
    ELSE Project(generate_precalibrated_matrix(easting_northing_matrix))

-----------------------------------------------------------------------------
(* plot_lats_lons_on_map and index *)

\* np.mean of projected values, kept as a term
mean_of(s) == [fn |-> "mean", of |-> s]

zip(a, b) == [i \in 1 .. Len(a) |-> << a[i], b[i] >>]

plot_lats_lons_on_map(computed_lats, computed_lons) ==
    [location |-> << mean_of(computed_lats), mean_of(computed_lons) >>,
     markers |-> zip(SubSeq(computed_lats, 1, Len(computed_lats) - 1),
                     SubSeq(computed_lons, 1, Len(computed_lons) - 1)),
     polyline |-> zip(computed_lats, computed_lons)]

DefaultGoogleMapHref == << "https://maps.app.goo.gl/jr4S1yaX8NeVXFsa8" >>

DefaultAddislandHref == << "https://www.addisland.gov.et/" >>

Prompt == [kind |-> "prompt"]

Connecting == [kind |-> "connecting"]

\* the values of request.form.get("title_deed", "")
Forms == { << >>, << " " >>, << "A", "1" >>, << " ", "A", "1", " " >> }

\* index with the result r of convert_eastings_northings_to_lats_lons:
\* unpacking None raises
IndexValid(r, out, deed) ==
    IF r = None
    THEN [pc |-> "crashed", branch |-> "valid"]
    ELSE [pc |-> "done", branch |-> "valid",
          computed |-> r,
          google_map_href |->
              << "https://www.google.com/maps?q=", mean_of(r[1]), mean_of(r[2]) >>,
          addisland_href |-> out.addisland_url,
          validity_html |->
              [kind |-> "valid", deed |-> deed, table_rows |-> zip(r[1], r[2])],
          map_html |-> plot_lats_lons_on_map(r[1], r[2])]

\* what index does with the result of extract_coordinates_from_addisland
IndexOutcome(out, msg, deed) ==
    IF out # None
    THEN IF out.easting_northing_matrix # << >>
         THEN IndexValid(convert_eastings_northings_to_lats_lons(
                             out.easting_northing_matrix), out, deed)
         ELSE [pc |-> "done", branch |-> "invalid_input",
               validity_html |-> [kind |-> "invalid_input"]]
    ELSE [pc |-> "done", branch |-> "failure",
          validity_html |-> [kind |-> "failure", msg |-> msg]]

-----------------------------------------------------------------------------
(* The request handler, step by step *)

Init ==
    /\ pc = "idle"
    /\ method = "GET"
    /\ form = << >>
    /\ title_deed_number = << >>
    /\ url = None
    /\ response = None
    /\ selected_table = None
    /\ out_dict = None
    /\ reply_msg = NoReply
    /\ precalib = None
    /\ computed = None
    /\ validity_html = Prompt
    /\ map_html = None
    /\ google_map_href = DefaultGoogleMapHref
    /\ addisland_href = DefaultAddislandHref
    /\ matrix = None
    /\ fetches = 0
    /\ parses = 0
    /\ converts = << >>

\* index up to the call of extract_coordinates_from_addisland; a GET or a
\* blank title deed renders the page at once
IndexRequest ==
    /\ pc \in {"idle", "done", "crashed"}
    /\ \E m \in {"GET", "POST"}, f \in Forms :
        /\ m = "GET" => f = << >>
        /\ method' = m
        /\ form' = f
        /\ title_deed_number' = (IF m = "POST" THEN Strip(f) ELSE << >>)
        /\ IF m = "POST" /\ Strip(f) # << >>
           THEN /\ pc' = "fetch"
                /\ validity_html' = Connecting
                /\ url' = << BaseUrl >> \o Strip(f)
           ELSE /\ pc' = "done"
                /\ validity_html' = Prompt
                /\ url' = None
    /\ response' = None
    /\ selected_table' = None
    /\ out_dict' = None
    /\ reply_msg' = NoReply
    /\ precalib' = None
    /\ computed' = None
    /\ map_html' = None
    /\ google_map_href' = DefaultGoogleMapHref
    /\ addisland_href' = DefaultAddislandHref
    /\ matrix' = None
    /\ fetches' = 0
    /\ parses' = 0
    /\ converts' = << >>

\* the first try block: requests.get and raise_for_status
Fetch ==
    /\ pc = "fetch"
    /\ \E outcome \in FetchOutcomes :
        /\ response' = outcome
        /\ IF FetchFailed(outcome)
           THEN /\ out_dict' = None
                /\ reply_msg' = TransportFailure
                /\ pc' = "returned"
           ELSE /\ pc' = "parse"
                /\ UNCHANGED << out_dict, reply_msg >>
    /\ fetches' = fetches + 1
    /\ UNCHANGED << method, form, title_deed_number, url, selected_table,
                    precalib, computed, validity_html, map_html,
                    google_map_href, addisland_href, matrix, parses, converts >>

\* the function returns r to index, or the exception r propagates
Return(r) ==
    IF IsRaised(r)
    THEN pc' = "crashed" /\ out_dict' = None /\ reply_msg' = NoReply
    ELSE pc' = "returned" /\ out_dict' = r.out /\ reply_msg' = r.msg

\* the second try block: parse the document and collect the rows
Parse ==
    /\ pc = "parse"
    /\ Return(ParseStage(response.doc, url))
    /\ selected_table' = SelectTable(find_all_table(response.doc))
    /\ parses' = parses + 1
    /\ UNCHANGED << method, form, title_deed_number, url, response, precalib,
                    computed, validity_html, map_html, google_map_href,
                    addisland_href, matrix, fetches, converts >>

\* the variables index sets from its outcome o
Render(o) ==
    /\ pc' = o.pc
    /\ converts' = (IF o.branch = "valid"
                    THEN << out_dict.easting_northing_matrix >> ELSE << >>)
    /\ precalib' = (IF o.branch = "valid" /\ o.pc = "done"
                    THEN generate_precalibrated_matrix(
                             out_dict.easting_northing_matrix)
                    ELSE None)
    /\ computed' = (IF "computed" \in DOMAIN o THEN o.computed ELSE None)
    /\ validity_html' =
           (IF "validity_html" \in DOMAIN o THEN o.validity_html ELSE Connecting)
    /\ map_html' = (IF "map_html" \in DOMAIN o THEN o.map_html ELSE None)
    /\ google_map_href' =
           (IF "google_map_href" \in DOMAIN o THEN o.google_map_href
            ELSE DefaultGoogleMapHref)
    /\ addisland_href' =
           (IF "addisland_href" \in DOMAIN o THEN o.addisland_href
            ELSE DefaultAddislandHref)

\* index after the call: convert, plot and render
IndexRespond ==
    /\ pc = "returned"
    /\ Render(IndexOutcome(out_dict, reply_msg, title_deed_number))
    /\ matrix' = (IF out_dict # None
                  THEN out_dict.easting_northing_matrix ELSE None)
    /\ UNCHANGED << method, form, title_deed_number, url, response,
                    selected_table, out_dict, reply_msg, fetches, parses >>

Next == IndexRequest \/ Fetch \/ Parse \/ IndexRespond

Spec == Init /\ [][Next]_vars

-----------------------------------------------------------------------------
(* The calibration and projection pipeline on its own: a batch of survey   *)
(* points is calibrated, then converted.                                   *)

\* the survey point at the offset p from the first reference point
LatticePosition(p) ==
    << NumAdd(given_easting[1],
              NumAdd(NumScale(p[1], NumSub(given_easting[2], given_easting[1])),
                     NumScale(p[2], NumSub(given_easting[3], given_easting[1])))),
       NumAdd(given_northing[1],
              NumAdd(NumScale(p[1], NumSub(given_northing[2], given_northing[1])),
                     NumScale(p[2], NumSub(given_northing[3], given_northing[1])))) >>

Batches == SeqsUpTo({ LatticePosition(p) : p \in LatticePoints }, MaxPoints)

InitPipeline ==
    /\ pc = "batch"
    /\ matrix \in Batches
    /\ method = "GET"
    /\ form = << >>
    /\ title_deed_number = << >>
    /\ url = None
    /\ response = None
    /\ selected_table = None
    /\ out_dict = None
    /\ reply_msg = NoReply
    /\ precalib = None
    /\ computed = None
    /\ validity_html = Prompt
    /\ map_html = None
    /\ google_map_href = DefaultGoogleMapHref
    /\ addisland_href = DefaultAddislandHref
    /\ fetches = 0
    /\ parses = 0
    /\ converts = << >>

\* generate_precalibrated_matrix(matrix)
Calibrate ==
    /\ pc = "batch"
    /\ precalib' = generate_precalibrated_matrix(matrix)
    /\ pc' = "calibrated"
    /\ UNCHANGED << method, form, title_deed_number, url, response,
                    selected_table, out_dict, reply_msg, computed,
                    validity_html, map_html, google_map_href, addisland_href,
                    matrix, fetches, parses, converts >>

\* convert_eastings_northings_to_lats_lons(matrix)
Convert ==
    /\ pc = "calibrated"
    /\ computed' = convert_eastings_northings_to_lats_lons(matrix)
    /\ converts' = << matrix >>
    /\ pc' = "projected"
    /\ UNCHANGED << method, form, title_deed_number, url, response,
                    selected_table, out_dict, reply_msg, precalib,
                    validity_html, map_html, google_map_href, addisland_href,
                    matrix, fetches, parses >>

NextPipeline == Calibrate \/ Convert

SpecPipeline == InitPipeline /\ [][NextPipeline]_vars

-----------------------------------------------------------------------------
(* Properties of extract_coordinates_from_addisland and index (Spec) *)

\* the document was fetched and extract_coordinates_from_addisland returned
Extracted == pc = "returned" /\ parses = 1

\* a text that, after removing at most one decimal point, is a non-empty
\* string of the decimal digits 0-9
DecimalText(t) ==
    /\ ReplaceFirstDot(t) # << >>
    /\ \A i \in 1 .. Len(ReplaceFirstDot(t)) : IsAsciiDigit(ReplaceFirstDot(t)[i])

\* a row of exactly two cells that are both decimal texts
ValidPair(row) ==
    /\ Len(find_all_td(row)) = 2
    /\ DecimalText(get_text(find_all_td(row)[1]))
    /\ DecimalText(get_text(find_all_td(row)[2]))

\* no table of the document holds the marker in any cell, at any depth
NoMarkerAnywhere(doc) ==
    \A i \in 1 .. Len(find_all_table(doc)) :
        \A r \in 1 .. Len(find_all_table(doc)[i].rows) :
            \A c \in 1 .. Len(find_all_table(doc)[i].rows[r]) :
                ~ Contains(find_all_table(doc)[i].rows[r][c].text, Marker)

\* C1: when the document is fetched but no table contains the marker
\* substring, the outcome is the NoDataFailure message (not the ParseFailure
\* message, not success).
C1_MissingTableIsNoData ==
    (Extracted /\ NoMarkerAnywhere(response.doc))
        => (out_dict = None /\ reply_msg = NoDataFailure)

\* C4: when the fetch fails (a request exception, or a 4xx/5xx status), the
\* function returns the absent value with the TransportFailure message after
\* exactly one fetch attempt and without any parsing step; index shows that
\* message.
C4_TransportFailureOnce ==
    (/\ pc \in {"returned", "done", "crashed"}
     /\ response # None
     /\ (response.kind = "RequestException" \/ response.status \in 400 .. 599))
        => /\ out_dict = None
           /\ reply_msg = TransportFailure
           /\ fetches = 1
           /\ parses = 0
           /\ selected_table = None
           /\ pc # "crashed"
           /\ pc = "done" =>
                  validity_html = [kind |-> "failure", msg |-> TransportFailure]

\* C4 witness: an HTTP 500 whose body holds a valid coordinates table
C4_Witness ==
    /\ pc = "returned"
    /\ response # None
    /\ response.kind = "response"
    /\ response.status = 500
    /\ response.doc = << CoordTable(1) >>
    /\ reply_msg = TransportFailure

\* C5: when the coordinates table is found but has no data rows beyond its
\* header, or none of its data rows is a valid coordinate pair, the function
\* returns the absent value with the NoDataFailure message.
C5_NoValidRowsIsNoData ==
    (/\ Extracted
     /\ selected_table # None
     /\ \A i \in 2 .. Len(find_all_tr(selected_table)) :
            ~ ValidPair(find_all_tr(selected_table)[i]))
        => (out_dict = None /\ reply_msg = NoDataFailure)

\* the valid pairs among rows, converted, in order
RECURSIVE ValidPairsOf(_)
ValidPairsOf(rows) ==
    IF rows = << >> THEN << >>
    ELSE (IF ValidPair(Head(rows))
          THEN << << float(get_text(find_all_td(Head(rows))[1])),
                     float(get_text(find_all_td(Head(rows))[2])) >> >>
          ELSE << >>) \o ValidPairsOf(Tail(rows))

\* C6: on success the coordinate sequence is exactly the order-preserving
\* filter of the selected table's rows after the first: a row is included
\* iff it has exactly two cells that are both decimal texts.
C6_OrderPreservingFilter ==
    (Extracted /\ reply_msg = Success)
        => /\ selected_table # None
           /\ out_dict # None
           /\ out_dict.easting_northing_matrix
                  = ValidPairsOf(Tail(find_all_tr(selected_table)))

\* C6 witness: two valid rows around a row with a non-numeric cell
C6_Witness ==
    /\ Extracted
    /\ reply_msg = Success
    /\ response.doc = << Table(<< HeaderMarker, RefRow(2), JunkRow, RefRow(1) >>) >>
    /\ out_dict.easting_northing_matrix
           = << << given_easting[2], given_northing[2] >>,
                << given_easting[1], given_northing[1] >> >>

\* C8: extract_coordinates_from_addisland never propagates an exception: it
\* returns one of (result, Success), (absent, TransportFailure),
\* (absent, NoDataFailure), (absent, ParseFailure), and an exception raised
\* while parsing or collecting rows gives the ParseFailure message.
C8_NeverPropagates ==
    /\ (pc = "crashed" => reply_msg # NoReply)
    /\ (pc = "returned" =>
           \/ /\ out_dict # None
              /\ out_dict.easting_northing_matrix # << >>
              /\ out_dict.addisland_url = url
              /\ reply_msg = Success
           \/ out_dict = None
                  /\ reply_msg \in {TransportFailure, NoDataFailure, ParseFailure})
    /\ (Extracted /\ IsRaised(ParseBody(response.doc, url)))
           => (out_dict = None /\ reply_msg = ParseFailure)

\* C8 witness: float raises on a row that passed the digit check
C8_Witness ==
    /\ Extracted
    /\ response.doc = << Table(<< HeaderMarker, RefRow(1), Sup2Row >>) >>
    /\ out_dict = None
    /\ reply_msg = ParseFailure

\* C9: for every request with a non-empty title deed number the failure
\* message shown is one of the three; a success result carries a non-empty
\* coordinate list, so index never takes its "Invalid Input" branch, never
\* calls the conversion with an empty list and never unpacks its absent result.
C9_ThreeFailureMessages ==
    /\ validity_html.kind # "invalid_input"
    /\ validity_html.kind = "failure" =>
           validity_html.msg \in {TransportFailure, NoDataFailure, ParseFailure}
    /\ out_dict # None => out_dict.easting_northing_matrix # << >>
    /\ \A i \in 1 .. Len(converts) : converts[i] # << >>
    /\ pc # "crashed"

\* C9 witness: a request answered from a non-empty coordinate list
C9_Witness ==
    /\ pc = "done"
    /\ title_deed_number # << >>
    /\ validity_html.kind = "valid"
    /\ Len(converts) = 1
    /\ Len(converts[1]) = 2

\* C10 as stated: a table is selected only if the marker occurs in a cell of
\* its header (first) row.
C10_HeaderCellOnly ==
    (Extracted /\ selected_table # None)
        => /\ selected_table.rows # << >>
           /\ \E j \in 1 .. Len(selected_table.rows[1]) :
                  Contains(selected_table.rows[1][j].text, Marker)

\* a span at any depth below the table has a text containing the marker
SpanWithMarker(table) ==
    \E i \in 1 .. Len(TablesIn(table)) :
        \E r \in 1 .. Len(TablesIn(table)[i].rows) :
            \E c \in 1 .. Len(TablesIn(table)[i].rows[r]) :
                /\ TablesIn(table)[i].rows[r][c].span
                /\ Contains(Strip(TablesIn(table)[i].rows[r][c].text), Marker)

\* C10 (amended): the table the rows are read from is the first table in
\* document order, an outer table before the tables nested in it, that has a
\* span at any depth (header row, data row or nested table) whose text
\* contains the case-sensitive marker; without such a table none is selected.
C10_FirstTableWithMarkerSpan ==
    Extracted =>
        IF \E i \in 1 .. Len(find_all_table(response.doc)) :
               SpanWithMarker(find_all_table(response.doc)[i])
        THEN \E i \in 1 .. Len(find_all_table(response.doc)) :
                /\ selected_table = find_all_table(response.doc)[i]
                /\ SpanWithMarker(find_all_table(response.doc)[i])
                /\ \A k \in 1 .. (i - 1) :
                       ~ SpanWithMarker(find_all_table(response.doc)[k])
        ELSE selected_table = None

\* C10 witness: the outer table is selected for the marker of a table nested
\* in one of its data rows
C10_Witness ==
    /\ Extracted
    /\ response.doc
           = << Table(<< HeaderOther, << NestTd(CoordTable(1)) >>, RefRow(3) >>) >>
    /\ selected_table = response.doc[1]

-----------------------------------------------------------------------------
(* Properties of the pipeline (SpecPipeline) *)

Calibrated == pc \in {"calibrated", "projected"} /\ matrix # << >>

ReferencePoint(k) == << given_easting[k], given_northing[k] >>

StoredCorrection(k) == << easting_calib_req[k], northing_calib_req[k] >>

\* calibrated minus raw, for the i-th point
Applied(i) ==
    << NumSub(precalib[i][1], matrix[i][1]), NumSub(precalib[i][2], matrix[i][2]) >>

ReferenceBatch == << ReferencePoint(1), ReferencePoint(2), ReferencePoint(3) >>

\* C2 as stated: for the batch of the three reference points each point's
\* applied correction equals its own stored correction.
C2_OwnStoredCorrection ==
    (Calibrated /\ matrix = ReferenceBatch)
        => \A k \in 1 .. 3 : Applied(k) = StoredCorrection(k)

\* C2 (amended): for the batch of the three reference points every point
\* receives the same correction, the mean of the three stored corrections
\* (the field at the batch mean); a reference point receives its own stored
\* correction when the batch consists of that point alone, once or repeated.
C2_MeanOfStoredCorrections ==
    /\ (Calibrated /\ matrix = ReferenceBatch)
           => \A k \in 1 .. 3 :
                  Applied(k) = << mean(easting_calib_req), mean(northing_calib_req) >>
    /\ \A k \in 1 .. 3 :
           (Calibrated /\ \A i \in 1 .. Len(matrix) : matrix[i] = ReferencePoint(k))
               => \A i \in 1 .. Len(matrix) : Applied(i) = StoredCorrection(k)

\* C2 witness: the batch of the three reference points has been calibrated
C2_Witness == pc = "calibrated" /\ matrix = ReferenceBatch

\* the correction field at the mean position of the batch
FieldAtMean ==
    CalibAt(column_stack(given_easting, given_northing),
            << mean(Column(matrix, 1)), mean(Column(matrix, 2)) >>)

\* C3: for every non-empty batch the correction is the field's value at the
\* arithmetic mean of the batch, added to every coordinate: all points get
\* the same offset, pairwise differences and order are unchanged, and for a
\* batch of identical points the offset is the field's value at that point.
C3_OneOffsetAtBatchMean ==
    Calibrated =>
        /\ Len(precalib) = Len(matrix)
        /\ \A i \in 1 .. Len(matrix) : Applied(i) = FieldAtMean
        /\ \A i, j \in 1 .. Len(matrix) :
               /\ NumSub(precalib[i][1], precalib[j][1])
                      = NumSub(matrix[i][1], matrix[j][1])
               /\ NumSub(precalib[i][2], precalib[j][2])
                      = NumSub(matrix[i][2], matrix[j][2])
        /\ (\A i \in 1 .. Len(matrix) : matrix[i] = matrix[1])
               => Applied(1) = CalibAt(column_stack(given_easting, given_northing),
                                       matrix[1])

\* C3 witness: three distinct points, two of them outside the reference triangle
C3_Witness ==
    /\ pc = "calibrated"
    /\ matrix = << LatticePosition(<< 1, 1 >>), LatticePosition(<< -1, 0 >>),
                   LatticePosition(<< 0, 1 >>) >>

\* C7: for n >= 1 raw coordinates the conversion returns latitudes and
\* longitudes of length n + 1 each: the projections of the n calibrated
\* inputs in input order, then the first entry again.
C7_ClosedRing ==
    (pc = "projected" /\ matrix # << >>) =>
        /\ Len(computed[1]) = Len(matrix) + 1
        /\ Len(computed[2]) = Len(matrix) + 1
        /\ \A i \in 1 .. Len(matrix) :
               << computed[1][i], computed[2][i] >>
                   = to_latlon(precalib[i][1], precalib[i][2], zone, TRUE)
        /\ computed[1][Len(matrix) + 1] = computed[1][1]
        /\ computed[2][Len(matrix) + 1] = computed[2][1]

\* C7 witness: a single point has been converted to a ring of two entries
C7_Witness ==
    /\ pc = "projected"
    /\ Len(matrix) = 1
    /\ Len(computed[1]) = 2

====
